---- MODULE Spec2Model ----
(***************************************************************************)
(* Block-chained file authentication (w3-file_auth): the reverse block     *)
(* reader, the chain builder, the signer and the verifier, run as the two  *)
(* command-line modes of main on a small file system.                      *)
(*                                                                         *)
(* Bytes are pairs of hex nibbles.  A nibble is either a literal           *)
(* <<"n", k>> or a digest nibble <<"h", s, k>>, the k-th nibble of the     *)
(* digest of the byte sequence s.  Two digests are equal exactly when the  *)
(* hashed sequences are equal: H is collision-free by construction.        *)
(***************************************************************************)
EXTENDS Integers, Sequences, FiniteSets, TLC

(* ---- bounds ---------------------------------------------------------- *)
\* nominal block size (1024 in the program), scaled down
B == 2
\* digest size in bytes (32 in the program), scaled down
HASH_SIZE == 1
\* longest input file
MaxLen == 5

(* ---- program constants ----------------------------------------------- *)
KB == B
DEFAULT_BUF_SIZE == B
BLOCK_SIZE == B

(* ---- bytes, digests, hex --------------------------------------------- *)
Nib(k) == <<"n", k>>
Byte(k) == <<Nib(k \div 16), Nib(k % 16)>>
ZeroByte == Byte(0)
ContentBytes == {Byte(0), Byte(1)}

Min(a, b) == IF a < b THEN a ELSE b

\* Sha256::digest(bytes): HASH_SIZE bytes, each a pair of digest nibbles
Sha256(s) == [i \in 1..HASH_SIZE |-> << <<"h", s, 2 * i - 1>>, <<"h", s, 2 * i>> >>]

\* format!("{:x}", digest): two nibbles per byte, high nibble first
HexEncode(bytes) == [k \in 1..(2 * Len(bytes)) |-> bytes[(k + 1) \div 2][2 - (k % 2)]]

\* the one character of the model that is not a hex digit
BadNib == <<"n", 16>>
IsHexDigit(c) == c # BadNib

\* hex::decode(str): Err on an odd length or a non-hex character
HexDecodeOk(str) == Len(str) % 2 = 0 /\ \A k \in 1..Len(str) : IsHexDigit(str[k])
HexDecode(str) == [i \in 1..(Len(str) \div 2) |-> <<str[2 * i - 1], str[2 * i]>>]

\* vec![0; n]
Zeros(n) == [i \in 1..n |-> ZeroByte]

\* file.read(&mut buf) at cursor pos: the bytes read (at most cap of them)
ReadAt(data, pos, cap) == SubSeq(data, pos + 1, Min(Len(data), pos + cap))

(* ---- the file system ------------------------------------------------- *)
Paths == {"in", "aug", "out"}
NoFile == [exists |-> FALSE, data |-> <<>>]
File(d) == [exists |-> TRUE, data |-> d]
\* content of a destination that is there before the run
Stale == <<Byte(2)>>

RECURSIVE SeqsUpTo(_, _)
SeqsUpTo(S, n) ==
    IF n = 0 THEN {<<>>}
    ELSE LET shorter == SeqsUpTo(S, n - 1)
         IN  shorter \cup {Append(s, b) : s \in {t \in shorter : Len(t) = n - 1}, b \in S}

InputFiles == SeqsUpTo(ContentBytes, MaxLen)

VARIABLES
    fs,          \* Paths -> file
    pc,          \* position of main
    filesize,    \* FileRevIter.filesize
    offset,      \* FileRevIter.offset
    chunkLens,   \* lengths of the chunks FileRevIter has yielded, in order
    hashes,      \* the HashVec of main
    sidx,        \* number of iterations done of the loop of sign
    cursor,      \* read position of input_file (sign, verify)
    arg,         \* the HASH option of the verify run, a hex string
    hash,        \* verify's running expected digest
    stdout,      \* lines printed
    signRes,     \* outcome of the signing run
    verRes,      \* outcome of the verify run
    reads,       \* reads of the input done by verify
    written,     \* bytes written to the destination by verify
    failChunk,   \* index (from 0) of the chunk whose comparison failed, or -1
    digestPos,   \* positions (from 1) of the output of sign that hold digest bytes
    tamper,      \* what was done to the augmented file between the runs
    chunks,      \* the chunks FileRevIter has yielded, in order
    mitm         \* state of the meet-in-the-middle search (w5-mitm_dlog)

vars == <<fs, pc, filesize, offset, chunkLens, hashes, sidx, cursor, arg, hash,
          stdout, signRes, verRes, reads, written, failChunk, digestPos, tamper,
          chunks, mitm>>

NoTamper == [kind |-> "none", pos |-> 0]

\* the search of w5-mitm_dlog is another program: not running here
MitmIdle == [phase |-> "idle"]

Init ==
    /\ \E content \in InputFiles, augThere \in BOOLEAN, outThere \in BOOLEAN :
          fs = [p \in Paths |->
                  IF p = "in" THEN File(content)
                  ELSE IF (p = "aug" /\ augThere) \/ (p = "out" /\ outThere)
                       THEN File(Stale) ELSE NoFile]
    /\ pc = "sign_main"
    /\ filesize = 0
    /\ offset = 0
    /\ chunkLens = <<>>
    /\ hashes = <<>>
    /\ sidx = 0
    /\ cursor = 0
    /\ arg = <<>>
    /\ hash = <<>>
    /\ stdout = <<>>
    /\ signRes = "running"
    /\ verRes = "none"
    /\ reads = 0
    /\ written = 0
    /\ failChunk = -1
    /\ digestPos = {}
    /\ tamper = NoTamper
    /\ chunks = <<>>
    /\ mitm = MitmIdle

(* ---- signing run: compute_hashes ------------------------------------- *)
\* FileRevIter::new
FileRevIterNew ==
    /\ pc = "sign_main"
    /\ filesize' = Len(fs["in"].data)
    /\ offset' = Len(fs["in"].data) % KB
    /\ pc' = "hash_loop"
    /\ UNCHANGED <<fs, chunkLens, hashes, sidx, cursor, arg, hash, stdout,
                   signRes, verRes, reads, written, failChunk, digestPos,
                   tamper, chunks, mitm>>

\* the guard of FileRevIter::next
HasNext == offset <= filesize

\* the chunk FileRevIter::next reads: seek(End(-offset)) then read(buf)
NextChunk == ReadAt(fs["in"].data, filesize - offset, DEFAULT_BUF_SIZE)

\* the buffer FileRevIter::next returns: vec![0; DEFAULT_BUF_SIZE] filled by read
NextBuf == NextChunk \o Zeros(DEFAULT_BUF_SIZE - Len(NextChunk))

\* faulty variant of HashedBytes: the whole buffer is hashed, padding included
HashedBytesPadded ==
    IF hashes # <<>>
    THEN NextBuf \o hashes[Len(hashes)]
    ELSE NextBuf

\* the bytes one iteration of compute_hashes hashes:
\* buf.extend(val); len = buf.len() when there is a previous digest
HashedBytes ==
    IF hashes # <<>>
    THEN NextBuf \o hashes[Len(hashes)]
    ELSE SubSeq(NextBuf, 1, Len(NextChunk))

\* faulty variant of ComputeHashesStep: next() does not advance the offset
ComputeHashesStepStuck ==
    /\ pc = "hash_loop"
    /\ HasNext
    /\ chunkLens' = Append(chunkLens, Len(NextChunk))
    /\ chunks' = Append(chunks, NextChunk)
    /\ hashes' = Append(hashes, Sha256(HashedBytes))
    /\ UNCHANGED <<fs, pc, filesize, offset, sidx, cursor, arg, hash, stdout,
                   signRes, verRes, reads, written, failChunk, digestPos,
                   tamper, mitm>>

\* one iteration of the loop of compute_hashes, FileRevIter::next included
ComputeHashesStep ==
    /\ pc = "hash_loop"
    /\ HasNext
    /\ offset' = offset + B
    /\ chunkLens' = Append(chunkLens, Len(NextChunk))
    /\ chunks' = Append(chunks, NextChunk)
    /\ hashes' = Append(hashes, Sha256(HashedBytes))
    /\ UNCHANGED <<fs, pc, filesize, sidx, cursor, arg, hash, stdout, signRes,
                   verRes, reads, written, failChunk, digestPos, tamper, mitm>>

\* FileRevIter::next returns None: compute_hashes returns
ComputeHashesDone ==
    /\ pc = "hash_loop"
    /\ ~HasNext
    /\ pc' = "print_root"
    /\ UNCHANGED <<fs, filesize, offset, chunkLens, hashes, sidx, cursor, arg,
                   hash, stdout, signRes, verRes, reads, written, failChunk,
                   digestPos, tamper, chunks, mitm>>

\* faulty variant of PrintRoot: the root is not printed before sign is called
PrintRootLate ==
    /\ pc = "print_root"
    /\ pc' = "sign_open"
    /\ UNCHANGED <<fs, filesize, offset, chunkLens, hashes, sidx, cursor, arg,
                   hash, stdout, signRes, verRes, reads, written, failChunk,
                   digestPos, tamper, chunks, mitm>>

\* main: if let Some(val) = hashes.last() { println!("Hash 0: {:x}", val) }
PrintRoot ==
    /\ pc = "print_root"
    /\ stdout' = IF hashes # <<>>
                 THEN Append(stdout, <<"Hash 0", HexEncode(hashes[Len(hashes)])>>)
                 ELSE stdout
    /\ pc' = "sign_open"
    /\ UNCHANGED <<fs, filesize, offset, chunkLens, hashes, sidx, cursor, arg,
                   hash, signRes, verRes, reads, written, failChunk, digestPos,
                   tamper, chunks, mitm>>

(* ---- signing run: sign ------------------------------------------------ *)
\* faulty variant of SignOpen: the destination is opened with create and truncate
SignOpenTruncate ==
    /\ pc = "sign_open"
    /\ fs' = [fs EXCEPT !["aug"] = File(<<>>)]
    /\ cursor' = 0
    /\ pc' = "sign_loop"
    /\ UNCHANGED <<filesize, offset, chunkLens, hashes, sidx, arg, hash, stdout,
                   signRes, verRes, reads, written, failChunk, digestPos,
                   tamper, chunks, mitm>>

\* OpenOptions::new().write(true).create_new(true).open(output_path)?
\* followed, when it succeeds, by File::open(input_path)
SignOpen ==
    /\ pc = "sign_open"
    /\ IF fs["aug"].exists
       THEN /\ signRes' = "AlreadyExists"
            /\ pc' = "sign_exit"
            /\ UNCHANGED <<fs, cursor>>
       ELSE /\ fs' = [fs EXCEPT !["aug"] = File(<<>>)]
            /\ cursor' = 0
            /\ pc' = "sign_loop"
            /\ UNCHANGED signRes
    /\ UNCHANGED <<filesize, offset, chunkLens, hashes, sidx, arg, hash, stdout,
                   verRes, reads, written, failChunk, digestPos,
                   tamper, chunks, mitm>>

\* hashes.iter().rev().skip(1): the digests the loop of sign walks, in order
SignHashes == [k \in 1..(Len(hashes) - 1) |-> hashes[Len(hashes) - k]]

\* one iteration of the loop of sign: a block, then the digest of the next one
SignStep ==
    /\ pc = "sign_loop"
    /\ sidx < Len(SignHashes)
    /\ LET blk == ReadAt(fs["in"].data, cursor, DEFAULT_BUF_SIZE)
           h   == SignHashes[sidx + 1]
           old == fs["aug"].data
       IN  /\ fs' = [fs EXCEPT !["aug"] = File(old \o blk \o h)]
           /\ cursor' = cursor + Len(blk)
           /\ digestPos' = digestPos \cup
                  ((Len(old) + Len(blk) + 1)..(Len(old) + Len(blk) + Len(h)))
    /\ sidx' = sidx + 1
    /\ UNCHANGED <<pc, filesize, offset, chunkLens, hashes, arg, hash, stdout,
                   signRes, verRes, reads, written, failChunk, tamper, chunks, mitm>>

\* after the loop: the last block, no digest; sign returns Ok and main
\* prints "File created"
SignLast ==
    /\ pc = "sign_loop"
    /\ sidx >= Len(SignHashes)
    /\ LET blk == ReadAt(fs["in"].data, cursor, DEFAULT_BUF_SIZE)
       IN  /\ fs' = [fs EXCEPT !["aug"] = File(fs["aug"].data \o blk)]
           /\ cursor' = cursor + Len(blk)
    /\ stdout' = Append(stdout, <<"File created", "aug">>)
    /\ signRes' = "ok"
    /\ pc' = "signed"
    /\ UNCHANGED <<filesize, offset, chunkLens, hashes, sidx, arg, hash,
                   verRes, reads, written, failChunk, digestPos,
                   tamper, chunks, mitm>>

(* ---- between the runs: the augmented file in transit ------------------ *)
\* byte values a tampered position can take: content bytes, the bytes of
\* every digest of the chain, and the bytes of two digests foreign to it
TamperBytes ==
    ContentBytes
    \cup UNION {{hashes[k][i] : i \in 1..HASH_SIZE} : k \in 1..Len(hashes)}
    \cup {Sha256(<<Byte(0)>>)[i] : i \in 1..HASH_SIZE}
    \cup {Sha256(<<>>)[i] : i \in 1..HASH_SIZE}

\* one byte of the augmented file is replaced by a different one
TamperByte ==
    /\ pc = "signed"
    /\ tamper.kind = "none"
    /\ \E pos \in 1..Len(fs["aug"].data), v \in TamperBytes :
          /\ v # fs["aug"].data[pos]
          /\ fs' = [fs EXCEPT !["aug"].data[pos] = v]
          /\ tamper' = [kind |-> IF pos \in digestPos THEN "digest" ELSE "content",
                        pos  |-> pos]
    /\ UNCHANGED <<pc, filesize, offset, chunkLens, hashes, sidx, cursor, arg,
                   hash, stdout, signRes, verRes, reads, written, failChunk,
                   digestPos, chunks, mitm>>

\* the augmented file loses its tail: only its first k bytes arrive
TruncateAug ==
    /\ pc = "signed"
    /\ tamper.kind = "none"
    /\ \E k \in 0..(Len(fs["aug"].data) - 1) :
          /\ fs' = [fs EXCEPT !["aug"].data = SubSeq(@, 1, k)]
          /\ tamper' = [kind |-> "truncate", pos |-> k]
    /\ UNCHANGED <<pc, filesize, offset, chunkLens, hashes, sidx, cursor, arg,
                   hash, stdout, signRes, verRes, reads, written, failChunk,
                   digestPos, chunks, mitm>>

\* one byte is appended to the augmented file
ExtendAug ==
    /\ pc = "signed"
    /\ tamper.kind = "none"
    /\ \E v \in TamperBytes :
          /\ fs' = [fs EXCEPT !["aug"].data = Append(@, v)]
          /\ tamper' = [kind |-> "extend", pos |-> Len(fs["aug"].data) + 1]
    /\ UNCHANGED <<pc, filesize, offset, chunkLens, hashes, sidx, cursor, arg,
                   hash, stdout, signRes, verRes, reads, written, failChunk,
                   digestPos, chunks, mitm>>

\* after a replacement in chunk k >= 1 of the augmented file, the digest at
\* the end of chunk k-1 is recomputed to match the forged chunk k; it can be
\* done again for chunk k-2, and so on up to the first chunk
RehashAug ==
    /\ pc = "signed"
    /\ tamper.kind \in {"content", "digest", "rehash"}
    /\ LET size == BLOCK_SIZE + HASH_SIZE
           k    == (tamper.pos - 1) \div size
           d    == Sha256(ReadAt(fs["aug"].data, k * size, size))
       IN  /\ k >= 1
           /\ fs' = [fs EXCEPT !["aug"].data =
                        [i \in 1..Len(@) |->
                           IF i > k * size - HASH_SIZE /\ i <= k * size
                           THEN d[i - (k * size - HASH_SIZE)] ELSE @[i]]]
           /\ tamper' = [kind |-> "rehash", pos |-> k * size]
    /\ UNCHANGED <<pc, filesize, offset, chunkLens, hashes, sidx, cursor, arg,
                   hash, stdout, signRes, verRes, reads, written, failChunk,
                   digestPos, chunks, mitm>>

(* ---- verify run -------------------------------------------------------- *)
\* the root digest of the signing run
Root == hashes[Len(hashes)]

\* values of the HASH option: the printed root, other digests of the right
\* size, and strings that do not decode to HASH_SIZE bytes
GoodArgs ==
    {HexEncode(Root), HexEncode(hashes[1]), HexEncode(Sha256(<<Byte(1)>>)),
     HexEncode(Zeros(HASH_SIZE))}
BadArgs ==
    {HexEncode(Zeros(HASH_SIZE + 1)),
     SubSeq(HexEncode(Root), 1, 2 * HASH_SIZE - 1),
     [HexEncode(Root) EXCEPT ![1] = BadNib]}
\* a file changed in transit is verified with the printed root
RootArgs == IF tamper.kind = "none" THEN GoodArgs \cup BadArgs ELSE {HexEncode(Root)}

\* faulty variant of VerifyStart: the length of the decoded root is not checked
VerifyStartAnyLength ==
    /\ pc = "signed"
    /\ \E a \in RootArgs :
          /\ arg' = a
          /\ IF HexDecodeOk(a)
             THEN /\ hash' = HexDecode(a)
                  /\ verRes' = "running"
                  /\ pc' = "verify_open"
             ELSE /\ verRes' = "panic"
                  /\ pc' = "verify_exit"
                  /\ UNCHANGED hash
    /\ UNCHANGED <<fs, filesize, offset, chunkLens, hashes, sidx, cursor,
                   stdout, signRes, reads, written, failChunk, digestPos,
                   tamper, chunks, mitm>>

\* main, Some(hash) branch: hex::decode(hash).unwrap(), then the start of
\* verify: File::open(input_path)?, GenericArray::clone_from_slice(hash)
VerifyStart ==
    /\ pc = "signed"
    /\ \E a \in RootArgs :
          /\ arg' = a
          /\ IF HexDecodeOk(a) /\ Len(HexDecode(a)) = HASH_SIZE
             THEN /\ hash' = HexDecode(a)
                  /\ verRes' = "running"
                  /\ pc' = "verify_open"
             ELSE /\ verRes' = "panic"
                  /\ pc' = "verify_exit"
                  /\ UNCHANGED hash
    /\ UNCHANGED <<fs, filesize, offset, chunkLens, hashes, sidx, cursor,
                   stdout, signRes, reads, written, failChunk, digestPos,
                   tamper, chunks, mitm>>

\* OpenOptions::new().write(true).create_new(true).open(output_path)?
VerifyOpen ==
    /\ pc = "verify_open"
    /\ IF fs["out"].exists
       THEN /\ verRes' = "AlreadyExists"
            /\ pc' = "verify_exit"
            /\ UNCHANGED fs
       ELSE /\ fs' = [fs EXCEPT !["out"] = File(<<>>)]
            /\ pc' = "verify_loop"
            /\ UNCHANGED verRes
    /\ cursor' = 0
    /\ UNCHANGED <<filesize, offset, chunkLens, hashes, sidx, arg, hash, stdout,
                   signRes, reads, written, failChunk, digestPos,
                   tamper, chunks, mitm>>

augmented_size == BLOCK_SIZE + HASH_SIZE

\* what main prints when verify returns Ok(result)
VerifyPrint(result) ==
    IF result
    THEN stdout \o << <<"Verified", "true">>, <<"File created", "out">> >>
    ELSE Append(stdout, <<"Verified", "false">>)

\* faulty variants of Mismatch: the comparison is made on full chunks only, on the
\* short last chunk only, or not on the first chunk
MismatchFullOnly(buf) == Len(buf) = augmented_size /\ hash # Sha256(buf)
MismatchLastOnly(buf) == Len(buf) # augmented_size /\ hash # Sha256(buf)
MismatchNotFirst(buf) == reads > 0 /\ hash # Sha256(buf)

\* block_hash = Sha256::digest(&buf[0..len]); hash != block_hash
Mismatch(buf) == hash # Sha256(buf)

\* len != augmented_size: the chunk is the last one
IsLast(buf) == Len(buf) # augmented_size

\* faulty variant of Content: the chunk is written with its digest
ContentWhole(buf) == buf

\* &buf[0..BLOCK_SIZE]: the content of a full chunk
Content(buf) == SubSeq(buf, 1, BLOCK_SIZE)

\* faulty variant of NextDigest: the slice starts one byte early
NextDigestEarly(buf) == SubSeq(buf, BLOCK_SIZE, Len(buf) - 1)

\* GenericArray::clone_from_slice(&buf[BLOCK_SIZE..]): the next expected digest
NextDigest(buf) == SubSeq(buf, BLOCK_SIZE + 1, Len(buf))

\* faulty variant of EofVerdict: the end of the input counts as success
EofVerdictTrue == "true"

\* the else branch of len > 0: return Ok(false)
EofVerdict == "false"

\* faulty variant of VerifyStep: the chunk is written before it is compared
VerifyStepWriteFirst ==
    /\ pc = "verify_loop"
    /\ LET buf == ReadAt(fs["aug"].data, cursor, augmented_size)
           len == Len(buf)
       IN  /\ cursor' = cursor + len
           /\ reads' = reads + 1
           /\ IF len > 0
              THEN /\ fs' = [fs EXCEPT !["out"].data =
                                @ \o (IF IsLast(buf) THEN buf ELSE Content(buf))]
                   /\ written' = written + (IF IsLast(buf) THEN len ELSE BLOCK_SIZE)
                   /\ IF Mismatch(buf)
                      THEN /\ verRes' = "false"
                           /\ stdout' = VerifyPrint(FALSE)
                           /\ failChunk' = reads
                           /\ pc' = "verify_exit"
                           /\ UNCHANGED hash
                      ELSE IF IsLast(buf)
                      THEN /\ verRes' = "true"
                           /\ stdout' = VerifyPrint(TRUE)
                           /\ pc' = "verify_exit"
                           /\ UNCHANGED <<hash, failChunk>>
                      ELSE /\ hash' = NextDigest(buf)
                           /\ UNCHANGED <<pc, verRes, stdout, failChunk>>
              ELSE /\ verRes' = EofVerdict
                   /\ stdout' = VerifyPrint(EofVerdict = "true")
                   /\ pc' = "verify_exit"
                   /\ UNCHANGED <<fs, hash, written, failChunk>>
    /\ UNCHANGED <<filesize, offset, chunkLens, hashes, sidx, arg, signRes,
                   digestPos, tamper, chunks, mitm>>

\* one iteration of the loop of verify
VerifyStep ==
    /\ pc = "verify_loop"
    /\ LET buf == ReadAt(fs["aug"].data, cursor, augmented_size)
           len == Len(buf)
       IN  /\ cursor' = cursor + len
           /\ reads' = reads + 1
           /\ IF len > 0
              THEN IF Mismatch(buf)
                   THEN /\ verRes' = "false"
                        /\ stdout' = VerifyPrint(FALSE)
                        /\ failChunk' = reads
                        /\ pc' = "verify_exit"
                        /\ UNCHANGED <<fs, hash, written>>
                   ELSE IF IsLast(buf)
                   THEN /\ fs' = [fs EXCEPT !["out"].data = @ \o buf]
                        /\ written' = written + len
                        /\ verRes' = "true"
                        /\ stdout' = VerifyPrint(TRUE)
                        /\ pc' = "verify_exit"
                        /\ UNCHANGED <<hash, failChunk>>
                   ELSE /\ fs' = [fs EXCEPT !["out"].data = @ \o Content(buf)]
                        /\ written' = written + Len(Content(buf))
                        /\ hash' = NextDigest(buf)
                        /\ UNCHANGED <<pc, verRes, stdout, failChunk>>
              ELSE /\ verRes' = EofVerdict
                   /\ stdout' = VerifyPrint(EofVerdict = "true")
                   /\ pc' = "verify_exit"
                   /\ UNCHANGED <<fs, hash, written, failChunk>>
    /\ UNCHANGED <<filesize, offset, chunkLens, hashes, sidx, arg, signRes,
                   digestPos, tamper, chunks, mitm>>

Next ==
    \/ FileRevIterNew
    \/ ComputeHashesStep
    \/ ComputeHashesDone
    \/ PrintRoot
    \/ SignOpen
    \/ SignStep
    \/ SignLast
    \/ TamperByte
    \/ TruncateAug
    \/ ExtendAug
    \/ RehashAug
    \/ VerifyStart
    \/ VerifyOpen
    \/ VerifyStep

Spec == Init /\ [][Next]_vars

\* the two loops as the single thread of main runs them: an iteration that
\* can be taken is taken
FairSpec ==
    /\ Spec
    /\ WF_vars(ComputeHashesStep \/ ComputeHashesDone)
    /\ WF_vars(VerifyStep)

(* ---- the input file is not stable -------------------------------------- *)
\* sign opens the input a second time, after compute_hashes has read it:
\* between the two another process cuts the file to its first k bytes
InputShrinks ==
    /\ pc = "sign_open"
    /\ \E k \in 0..(Len(fs["in"].data) - 1) :
          fs' = [fs EXCEPT !["in"].data = SubSeq(@, 1, k)]
    /\ UNCHANGED <<pc, filesize, offset, chunkLens, hashes, sidx, cursor, arg,
                   hash, stdout, signRes, verRes, reads, written, failChunk,
                   digestPos, tamper, chunks, mitm>>

NextShrink == Next \/ InputShrinks

ShrinkSpec == Init /\ [][NextShrink]_vars

(* ---- vocabulary of the properties ------------------------------------- *)
Orig == fs["in"].data
Aug == fs["aug"].data
Out == fs["out"].data

\* compute_hashes has returned
Hashed == pc \notin {"sign_main", "hash_loop"}
\* sign has returned Ok and the augmented file is as sign wrote it
Signed == signRes = "ok" /\ tamper.kind = "none"
\* verify has returned a boolean
Decided == pc = "verify_exit" /\ verRes \in {"true", "false"}
\* the verify run was given the root the signing run printed
GenuineRoot == arg = HexEncode(Root)
RootPrinted ==
    /\ hashes # <<>>
    /\ \E i \in 1..Len(stdout) : stdout[i] = <<"Hash 0", HexEncode(Root)>>

\* the blocks and the digest chain of a file as the data model defines them
NumBlocks(d) == (Len(d) + B - 1) \div B
Block(d, i) == SubSeq(d, i * B + 1, Min(Len(d), (i + 1) * B))
RECURSIVE ChainDigest(_, _)
ChainDigest(d, i) ==
    IF i >= NumBlocks(d) - 1
    THEN Sha256(Block(d, i))
    ELSE Sha256(Block(d, i) \o ChainDigest(d, i + 1))
RECURSIVE Layout(_, _)
Layout(d, i) ==
    IF i >= NumBlocks(d) - 1
    THEN Block(d, i)
    ELSE Block(d, i) \o ChainDigest(d, i + 1) \o Layout(d, i + 1)

(* ---- C1 ---------------------------------------------------------------- *)
\* C1 (round trip): verifying the untouched output of sign with the printed
\* root, into a destination that was not there, returns true and leaves a
\* destination equal to the original input, for every input length.
RoundTrip ==
    (Decided /\ Signed /\ GenuineRoot) => (verRes = "true" /\ Out = Orig)

(* ---- C2 ---------------------------------------------------------------- *)
\* C2 (tampered content): after one content byte of the output of sign is
\* replaced, verify with the genuine root returns false.
TamperedContentDetected ==
    (Decided /\ tamper.kind = "content" /\ GenuineRoot) => verRes = "false"

\* a content byte of the last block of a two-block file whose length is not
\* a multiple of B was replaced, and the comparison of that block failed
TamperedContentWitness ==
    /\ Decided /\ tamper.kind = "content" /\ GenuineRoot
    /\ Len(Orig) = B + 1
    /\ tamper.pos = Len(Aug)
    /\ verRes = "false" /\ failChunk = 1

(* ---- C3 ---------------------------------------------------------------- *)
\* C3 (tampered digest): after a byte of an embedded digest is replaced,
\* verify with the genuine root returns false, and the comparison that fails
\* is that of the chunk holding the digest or of an earlier chunk.
TamperedDigestDetected ==
    (Decided /\ tamper.kind = "digest" /\ GenuineRoot) =>
        /\ verRes = "false"
        /\ failChunk >= 0
        /\ failChunk <= (tamper.pos - 1) \div augmented_size

\* the second embedded digest of a three-block file was corrupted and the
\* comparison failed on the second chunk, after the first was accepted
TamperedDigestWitness ==
    /\ Decided /\ tamper.kind = "digest" /\ GenuineRoot
    /\ Len(Orig) = 2 * B + 1
    /\ tamper.pos = 2 * augmented_size
    /\ verRes = "false" /\ failChunk = 1 /\ written = B

(* ---- C4 ---------------------------------------------------------------- *)
\* C4 (root sensitivity): verify of the untouched output of sign with a
\* well-formed root other than the genuine one returns false after exactly
\* one read and with nothing written to the destination.
RootSensitivity ==
    (Decided /\ Signed /\ HexDecode(arg) # Root) =>
        (verRes = "false" /\ reads = 1 /\ written = 0 /\ Out = <<>>)

\* a wrong root on a file of several chunks: one read, nothing written
RootSensitivityWitness ==
    /\ Decided /\ Signed /\ HexDecode(arg) # Root
    /\ Len(Aug) > augmented_size
    /\ verRes = "false" /\ reads = 1 /\ failChunk = 0 /\ Out = <<>>

(* ---- C5 ---------------------------------------------------------------- *)
\* C5 (exact multiple): for a non-empty file whose length is a multiple of B
\* the reader yields exactly length / B chunks, none empty, and the chain
\* has exactly that many digests, none the digest of an empty block.
ExactMultipleBlocks ==
    (Hashed /\ Len(Orig) > 0 /\ Len(Orig) % B = 0) =>
        /\ Len(chunkLens) = Len(Orig) \div B
        /\ \A i \in 1..Len(chunkLens) : chunkLens[i] > 0
        /\ Len(hashes) = Len(Orig) \div B
        /\ \A i \in 1..Len(hashes) : hashes[i] # Sha256(<<>>)

(* ---- C6 ---------------------------------------------------------------- *)
\* C6 (sub-block file): for a file of 1 to B-1 bytes the chain is the single
\* digest H(file), which is the root, and the output of sign equals the file,
\* no digest appended.
SubBlockFile ==
    (0 < Len(Orig) /\ Len(Orig) < B) =>
        /\ Hashed => (hashes = <<Sha256(Orig)>> /\ Root = Sha256(Orig))
        /\ Signed => (Aug = Orig /\ digestPos = {})

\* a one-byte file has been signed
SubBlockWitness ==
    /\ Len(Orig) = 1 /\ Signed
    /\ hashes = <<Sha256(Orig)>> /\ Aug = Orig

(* ---- C7 ---------------------------------------------------------------- *)
\* C7 (non-overwrite): a destination that is there before sign or verify
\* opens it is never changed by the run, and the open of it fails with
\* AlreadyExists, after which it stays unchanged.
NonOverwriteStep ==
    /\ (fs["aug"].exists /\ pc \in {"sign_main", "hash_loop", "print_root", "sign_open"})
          => /\ fs'["aug"] = fs["aug"]
             /\ pc = "sign_open" => (signRes' = "AlreadyExists" /\ pc' = "sign_exit")
    /\ (fs["out"].exists /\ pc \notin {"verify_loop", "verify_exit"})
          => /\ fs'["out"] = fs["out"]
             /\ pc = "verify_open" => (verRes' = "AlreadyExists" /\ pc' = "verify_exit")
    /\ signRes = "AlreadyExists" => fs'["aug"] = fs["aug"]
    /\ verRes = "AlreadyExists" => fs'["out"] = fs["out"]
NonOverwrite == [][NonOverwriteStep]_vars

\* verify was refused an existing destination, which still holds its content
NonOverwriteWitness ==
    /\ pc = "verify_exit" /\ verRes = "AlreadyExists"
    /\ fs["out"] = File(Stale)

(* ---- C8 ---------------------------------------------------------------- *)
\* C8 (layout): for a non-empty file of N blocks the output of sign is
\* block_0 ++ digest(block_1) ++ ... ++ digest(block_{N-1}) ++ block_{N-1},
\* of length original length + (N-1) * HASH_SIZE.
AugmentedLayout ==
    (Signed /\ Len(Orig) > 0) =>
        /\ Aug = Layout(Orig, 0)
        /\ Len(Aug) = Len(Orig) + (NumBlocks(Orig) - 1) * HASH_SIZE

(* ---- C9 ---------------------------------------------------------------- *)
\* C9 (empty file): signing an empty file yields no chunk, an empty digest
\* list and no "Hash 0" line, and creates an empty output file.
EmptyFile ==
    (Hashed /\ Len(Orig) = 0) =>
        /\ chunkLens = <<>>
        /\ hashes = <<>>
        /\ \A i \in 1..Len(stdout) : stdout[i][1] # "Hash 0"
        /\ Signed => Aug = <<>>

(* ---- C10 --------------------------------------------------------------- *)
\* C10 (root first): every step that creates the output of sign, writes to
\* it, or fails on its being there already starts in a state where the root
\* has been printed.
RootFirstStep ==
    (fs'["aug"] # fs["aug"] \/ (signRes' = "AlreadyExists" /\ signRes # "AlreadyExists"))
        => RootPrinted
RootFirst == [][RootFirstStep]_vars

\* sign failed on an existing destination and the root is on the output
RootFirstWitness ==
    /\ signRes = "AlreadyExists"
    /\ RootPrinted
    /\ fs["aug"] = File(Stale)

(* ---- C11 --------------------------------------------------------------- *)
\* C11 (reader chunks): FileRevIter yields no chunk for an empty file;
\* otherwise its first chunk has length S mod B, or B when S is a multiple
\* of B, every later chunk has length B, and the chunks in order are the
\* blocks of the file from last to first.
ReaderChunks ==
    Hashed =>
        /\ Len(Orig) = 0 => chunks = <<>>
        /\ Len(Orig) > 0 =>
              /\ Len(chunks) = NumBlocks(Orig)
              /\ Len(chunks[1]) = (IF Len(Orig) % B = 0 THEN B ELSE Len(Orig) % B)
              /\ \A k \in 2..Len(chunks) : Len(chunks[k]) = B
              /\ \A k \in 1..Len(chunks) : chunks[k] = Block(Orig, NumBlocks(Orig) - k)

(* ---- C12 --------------------------------------------------------------- *)
\* C12 (chain): after compute_hashes the digest list has one entry per block;
\* entry 0 is H(last block), entry k > 0 is H(block ++ entry k-1) for the
\* block k positions before the last, and the last entry is digest(block_0).
ChainInvariant ==
    Hashed =>
        /\ Len(hashes) = NumBlocks(Orig)
        /\ \A k \in 1..Len(hashes) :
              hashes[k] = IF k = 1
                          THEN Sha256(Block(Orig, NumBlocks(Orig) - 1))
                          ELSE Sha256(Block(Orig, NumBlocks(Orig) - k) \o hashes[k - 1])
        /\ hashes # <<>> => Root = ChainDigest(Orig, 0)

(* ---- vocabulary of the verifier properties ----------------------------- *)
\* the k-th chunk (from 0) of the file verify reads
Chunk(k) == ReadAt(Aug, k * augmented_size, augmented_size)
\* the first B bytes of each of the first n chunks, in order
RECURSIVE AcceptedOut(_)
AcceptedOut(n) ==
    IF n = 0 THEN <<>> ELSE AcceptedOut(n - 1) \o SubSeq(Chunk(n - 1), 1, B)
\* the digest the k-th chunk is compared with
Expected(k) ==
    IF k = 0 THEN HexDecode(arg) ELSE SubSeq(Chunk(k - 1), B + 1, augmented_size)
IsPrefix(s, t) == Len(s) <= Len(t) /\ s = SubSeq(t, 1, Len(s))

(* ---- C13 --------------------------------------------------------------- *)
\* C13 (fail fast): when the comparison of a chunk fails verify returns
\* false at once: that chunk is the last one read, none of it is written,
\* and the destination stays in place holding the blocks accepted before.
FailFast ==
    (pc = "verify_exit" /\ failChunk >= 0) =>
        /\ verRes = "false"
        /\ reads = failChunk + 1
        /\ cursor = failChunk * augmented_size + Len(Chunk(failChunk))
        /\ written = failChunk * B
        /\ fs["out"].exists
        /\ Out = AcceptedOut(failChunk)

\* the second chunk was rejected: the first block is in the destination
FailFastWitness ==
    /\ pc = "verify_exit" /\ failChunk = 1 /\ verRes = "false"
    /\ reads = 2 /\ Out = SubSeq(Orig, 1, B)
    /\ Len(Aug) > 2 * augmented_size

(* ---- C14 --------------------------------------------------------------- *)
\* C14 (premature end): an iteration of verify whose read returns no byte
\* ends the run with the boolean false, printed as "Verified: false", and
\* leaves the files as they are.
PrematureEndStep ==
    (pc = "verify_loop" /\ cursor >= Len(Aug)) =>
        /\ verRes' = "false"
        /\ pc' = "verify_exit"
        /\ stdout' = Append(stdout, <<"Verified", "false">>)
        /\ fs' = fs
PrematureEnd == [][PrematureEndStep]_vars

\* the input was a multiple of B + HASH_SIZE long: after a full chunk was
\* accepted the next read returned nothing
PrematureEndWitness ==
    /\ pc = "verify_exit" /\ verRes = "false" /\ failChunk = -1
    /\ Len(Aug) > 0 /\ Len(Aug) % augmented_size = 0
    /\ reads = Len(Aug) \div augmented_size + 1
    /\ written = B * (Len(Aug) \div augmented_size)

(* ---- C15 --------------------------------------------------------------- *)
\* C15 (verifier step): at the start of every iteration the expected digest
\* is the supplied root or the tail of the last accepted full chunk, every
\* chunk read so far was full and matched, and the destination holds their
\* first B bytes in order; the run ends with true exactly on a matching
\* chunk shorter than B + HASH_SIZE, which is written whole.
VerifierStep ==
    /\ pc = "verify_loop" =>
          /\ hash = Expected(reads)
          /\ cursor = reads * augmented_size
          /\ Out = AcceptedOut(reads)
          /\ \A k \in 0..(reads - 1) :
                Len(Chunk(k)) = augmented_size /\ Sha256(Chunk(k)) = Expected(k)
    /\ (Decided /\ verRes = "true") =>
          /\ Len(Chunk(reads - 1)) \in 1..(augmented_size - 1)
          /\ Sha256(Chunk(reads - 1)) = Expected(reads - 1)
          /\ Out = AcceptedOut(reads - 1) \o Chunk(reads - 1)
    /\ (Decided /\ verRes = "false") =>
          \/ Chunk(reads - 1) = <<>>
          \/ Sha256(Chunk(reads - 1)) # Expected(reads - 1)

\* a second iteration starts after a full first chunk was accepted
VerifierStepWitness ==
    /\ pc = "verify_loop" /\ reads = 1
    /\ hash = SubSeq(Aug, B + 1, augmented_size)
    /\ Out = SubSeq(Aug, 1, B)

(* ---- C16 --------------------------------------------------------------- *)
\* C16 (authenticated prefix): in a verify run with the genuine root, on the
\* output of sign as it is or replaced, truncated, extended or re-hashed,
\* the destination created by the run is at every step a prefix of the
\* original file.
AuthenticatedPrefix ==
    (pc \in {"verify_loop", "verify_exit"}
       /\ verRes \in {"running", "true", "false"} /\ GenuineRoot)
          => IsPrefix(Out, Orig)

\* a forged last block with the digest before it recomputed: the run is
\* over and nothing of the forgery is in the destination
AuthenticatedPrefixWitness ==
    /\ Decided /\ GenuineRoot /\ tamper.kind = "rehash"
    /\ Len(Aug) > 2 * augmented_size
    /\ verRes = "false" /\ failChunk = 1
    /\ Out = SubSeq(Orig, 1, B)

(* ---- C17 --------------------------------------------------------------- *)
\* C17 (signer defensive condition): sign writes no more digests than the
\* input has blocks to put before them, and it does not return Ok when the
\* digest list has more non-root entries than the input has blocks.
SignDefensive ==
    /\ pc \in {"sign_loop", "signed"} => sidx <= NumBlocks(Orig)
    /\ signRes = "ok" => Len(SignHashes) <= NumBlocks(Orig)

(* ---- C18 --------------------------------------------------------------- *)
\* C18 (termination): FileRevIter advances its offset by B at every chunk,
\* yields at most filesize / B + 1 chunks and then None, so compute_hashes
\* returns; verify does at most ceil(len / (B + HASH_SIZE)) + 1 reads and
\* then returns.
Termination ==
    /\ [][chunks' # chunks => offset' = offset + B]_vars
    /\ [](Len(chunks) <= filesize \div B + 1)
    /\ [](Hashed => offset > filesize)
    /\ (pc = "hash_loop" ~> pc = "print_root")
    /\ [](reads <= (Len(Aug) + augmented_size - 1) \div augmented_size + 1)
    /\ (pc = "verify_loop" ~> pc = "verify_exit")

\* both loops are over, each after as many iterations as the bound allows
TerminationWitness ==
    /\ Decided
    /\ offset > filesize /\ Len(chunks) = filesize \div B + 1 /\ Len(chunks) >= 2
    /\ reads >= 2 /\ reads = (Len(Aug) + augmented_size - 1) \div augmented_size + 1

(* ---- C19 --------------------------------------------------------------- *)
\* C19 (malformed root): a verify run whose HASH option does not decode to
\* exactly HASH_SIZE bytes ends in a panic before the loop: nothing is read,
\* the destination is not created, and no "Verified" line is printed.
WellFormedArg == HexDecodeOk(arg) /\ Len(HexDecode(arg)) = HASH_SIZE
MalformedRoot ==
    (verRes # "none" /\ ~WellFormedArg) =>
        /\ verRes = "panic"
        /\ pc = "verify_exit"
        /\ reads = 0 /\ written = 0
        /\ fs["out"] \in {NoFile, File(Stale)}
        /\ \A i \in 1..Len(stdout) : stdout[i][1] # "Verified"

\* the option is valid hex of one byte too many: panic, no destination
MalformedRootWitness ==
    /\ verRes = "panic"
    /\ HexDecodeOk(arg) /\ Len(HexDecode(arg)) = HASH_SIZE + 1
    /\ fs["out"] = NoFile /\ reads = 0

(***************************************************************************)
(* Meet-in-the-middle search for a discrete logarithm (w5-mitm_dlog): a    *)
(* separate program.  Its main is run here for every target h of           *)
(* 1 .. p - 1; the program itself has h = 491.                             *)
(***************************************************************************)
g == 2
p == 499
p_minus_2 == p - 2
b == 2^3
\* the h of the source
SourceH == 491

\* u32::to_le_bytes
ToLeBytes(x) == [i \in 1..4 |-> (x \div 256^(i - 1)) % 256]
\* BigUint::from_bytes_le
RECURSIVE FromBytesLe(_)
FromBytesLe(bytes) ==
    IF bytes = <<>> THEN 0 ELSE bytes[1] + 256 * FromBytesLe(Tail(bytes))

\* BigUint::modpow
RECURSIVE ModPow(_, _, _)
ModPow(base, e, m) ==
    IF e = 0 THEN 1 % m
    ELSE LET half == ModPow(base, e \div 2, m)
         IN  IF e % 2 = 0 THEN (half * half) % m
             ELSE (((half * half) % m) * base) % m

\* faulty variant of Left: g^x1 is not inverted
LeftNoInverse(x1) ==
    LET big_x1 == FromBytesLe(ToLeBytes(x1))
        g_x1   == ModPow(g, big_x1, p)
    IN  (mitm.h * g_x1) % p

\* left = h * (g^x1)^(p-2) % p
Left(x1) ==
    LET big_x1       == FromBytesLe(ToLeBytes(x1))
        g_x1         == ModPow(g, big_x1, p)
        g_x1_inverse == ModPow(g_x1, p_minus_2, p)
    IN  (mitm.h * g_x1_inverse) % p

\* right = (g^b)^x0 % p
Right(x0) ==
    LET big_b  == FromBytesLe(ToLeBytes(b))
        g_b    == ModPow(g, big_b, p)
        big_x0 == FromBytesLe(ToLeBytes(x0))
    IN  ModPow(g_b, big_x0, p)

fileVars == <<fs, pc, filesize, offset, chunkLens, hashes, sidx, cursor, arg, hash,
              stdout, signRes, verRes, reads, written, failChunk, digestPos,
              tamper, chunks>>

\* main up to the first loop: the banner is printed, the table is empty
MitmInit ==
    /\ fs = [q \in Paths |-> NoFile]
    /\ pc = "idle"
    /\ filesize = 0
    /\ offset = 0
    /\ chunkLens = <<>>
    /\ hashes = <<>>
    /\ sidx = 0
    /\ cursor = 0
    /\ arg = <<>>
    /\ hash = <<>>
    /\ stdout = <<>>
    /\ signRes = "none"
    /\ verRes = "none"
    /\ reads = 0
    /\ written = 0
    /\ failChunk = -1
    /\ digestPos = {}
    /\ tamper = NoTamper
    /\ chunks = <<>>
    /\ \E target \in 1..(p - 1) :
          mitm = [phase |-> "table", h |-> target, x1 |-> 0, x0 |-> 0,
                  table |-> <<>>, printed |-> << <<"banner">> >>]

\* one iteration of for x1 in 0..b: table.insert(left, x1)
TableStep ==
    /\ mitm.phase = "table"
    /\ mitm.x1 < b
    /\ mitm' = [mitm EXCEPT !.table = (Left(mitm.x1) :> mitm.x1) @@ @,
                            !.x1 = @ + 1]
    /\ UNCHANGED fileVars

\* the first loop is over
TableDone ==
    /\ mitm.phase = "table"
    /\ mitm.x1 >= b
    /\ mitm' = [mitm EXCEPT !.phase = "search"]
    /\ UNCHANGED fileVars

\* one iteration of for x0 in 0..b: on a match print the pair and break
SearchStep ==
    /\ mitm.phase = "search"
    /\ mitm.x0 < b
    /\ IF Right(mitm.x0) \in DOMAIN mitm.table
       THEN mitm' = [mitm EXCEPT
                       !.printed = Append(@, <<"pair", mitm.x0, mitm.table[Right(mitm.x0)]>>),
                       !.phase = "done"]
       ELSE mitm' = [mitm EXCEPT !.x0 = @ + 1]
    /\ UNCHANGED fileVars

\* the second loop ends without a match
SearchDone ==
    /\ mitm.phase = "search"
    /\ mitm.x0 >= b
    /\ mitm' = [mitm EXCEPT !.phase = "done"]
    /\ UNCHANGED fileVars

MitmNext ==
    \/ TableStep
    \/ TableDone
    \/ SearchStep
    \/ SearchDone

MitmSpec == MitmInit /\ [][MitmNext]_vars

(* ---- C20 --------------------------------------------------------------- *)
\* g^e mod p by repeated multiplication
RECURSIVE PowG(_)
PowG(e) == IF e = 0 THEN 1 ELSE (g * PowG(e - 1)) % p
\* the pairs printed so far
Pairs == {i \in 1..Len(mitm.printed) : mitm.printed[i][1] = "pair"}
\* the values of x0 for which some x1 of 0..b-1 solves g^(b*x0 + x1) = h
Matching == {u \in 0..(b - 1) : \E v \in 0..(b - 1) : PowG(b * u + v) = mitm.h}

\* C20 (meet in the middle): at most one pair is printed; a printed pair
\* (x0, x1) has both components in 0..b-1, satisfies g^(b*x0 + x1) mod p = h
\* and has the least x0 that has a match; the finished search has printed
\* nothing exactly when no x of 0..b*b-1 has g^x mod p = h.
MitmSound ==
    /\ Cardinality(Pairs) <= 1
    /\ \A i \in Pairs :
          LET x0 == mitm.printed[i][2]
              x1 == mitm.printed[i][3]
          IN  /\ x0 \in 0..(b - 1) /\ x1 \in 0..(b - 1)
              /\ PowG(b * x0 + x1) = mitm.h
              /\ \A u \in Matching : x0 <= u
    /\ mitm.phase = "done" =>
          (Pairs = {} <=> \A x \in 0..(b * b - 1) : PowG(x) # mitm.h)

\* the search of the source, h = 491, is over: no x below 64 is a logarithm
\* and nothing was printed
MitmWitness ==
    /\ mitm.phase = "done" /\ mitm.h = SourceH
    /\ mitm.x0 = b /\ Pairs = {}
    /\ DOMAIN mitm.table = {Left(v) : v \in 0..(b - 1)}
====
